---- MODULE Spec2Model ----
(***************************************************************************)
(* storage-upload-sample: execUpload packs a file or directory into a CAR  *)
(* archive (createCar / writeFiles), asks the scheduler for an upload      *)
(* destination (uploadFile) and streams the archive as a multipart form    *)
(* through a ProgressReader (uploadFileWithForm).                          *)
(*                                                                         *)
(* Three specifications share the same actions:                            *)
(*   Spec    one run of execUpload, as main calls it;                      *)
(*   SpecWF  writeFiles as a function of (noWrap, paths) on an open store; *)
(*   SpecPR  the ProgressReader and the upload observer over a body of any *)
(*           length, read in any chunking.                                 *)
(***************************************************************************)
EXTENDS Integers, Sequences, FiniteSets

VARIABLES
    pc,          \* position in execUpload / createCar / writeFiles / uploadFile
    filePath,    \* execUpload's filePath argument (the input)
    tempExists,  \* the temporary archive file exists on disk
    tempCreated, \* OpenReadWrite created the temporary archive file in this run
    noWrap,      \* writeFiles: the noWrap argument
    paths,       \* writeFiles: the paths argument
    idx,         \* writeFiles: index of the path the loop is at
    left,        \* nodes BuildUnixFSRecursive still has to commit for paths[idx]
    topLevel,    \* writeFiles: topLevel, the directory entries collected so far
    bsState,     \* block store: "None", "Open", "Finalized", "RootPatched"
    header,      \* archive file: the roots its header declares
    blocks,      \* archive file: the block records appended, in order
    indexed,     \* archive file: the index was written (Finalize)
    calls,       \* history: the block-store operations issued, with their outcome
    wfCid,       \* writeFiles: returned CID
    wfErr,       \* writeFiles: returned error
    carRoot,     \* createCar: returned string
    carErr,      \* createCar: returned error
    finalSnap,   \* history: length and block records of the file when Finalize returned
    req,         \* the AssetProperty sent with CreateUserAsset, or NoReq
    rsp,         \* CreateUserAsset's response, or NoRsp
    up,          \* the request uploadFileWithForm sends: URL and Authorization
    totalSize,   \* uploadFileWithForm: totalSize, the length of the form body
    off,         \* bytes.Buffer: read offset into the body
    dongSize,    \* uploadFileWithForm: dongSize, the observer's cumulative count
    reads,       \* history: what the wrapped reader returned, per Read
    rets,        \* history: what ProgressReader.Read returned, per Read
    reports,     \* history: the values the observer was called with
    ufErr,       \* uploadFile: returned error
    execErr      \* execUpload: returned error

vars == <<pc, filePath, tempExists, tempCreated, noWrap, paths, idx, left, topLevel,
          bsState, header, blocks, indexed, calls, wfCid, wfErr, carRoot, carErr,
          finalSnap, req, rsp, up, totalSize, off, dongSize, reads, rets, reports,
          ufErr, execErr>>

buildVars == <<noWrap, paths, idx, left, topLevel, wfCid, wfErr>>
storeVars == <<bsState, header, blocks, indexed, calls, finalSnap>>
fileVars == <<tempExists, tempCreated>>
carVars == <<carRoot, carErr>>
rpcVars == <<req, rsp>>
readVars == <<totalSize, off, dongSize, reads, rets, reports>>

----------------------------------------------------------------------------
(* Bounds *)

MaxNodes == 2    \* DAG nodes one top-level path commits
MaxPaths == 2    \* top-level paths given to writeFiles (SpecWF)
MaxData  == 2    \* bytes of data in one block
MaxBody  == 5    \* length of the form body (SpecPR)
MaxRead  == 3    \* length of the buffer a Read is given (SpecPR)

----------------------------------------------------------------------------
(* Values *)

Nil == "nil"

Names == {"a", "b"}

\* A top-level path: its base name, whether it is a directory, and the number
\* of DAG nodes its recursive build commits (a one-chunk file is one raw leaf).
Path == [base : Names, isDir : BOOLEAN, nodes : 1..MaxNodes]

NoPath == [base |-> "", isDir |-> FALSE, nodes |-> 0]

\* multicodec / multihash codes and the SHA2-256 digest length
DagPb == 112
Raw == 85
SHA2_256 == 18
Sha256Len == 32

\* What a digest is the hash of. Distinct contents have distinct digests.
Content(kind, p, k, links) == [kind |-> kind, path |-> p, k |-> k, links |-> links]

NewCidV1(codec, mhType, mhLen, content) ==
    [version |-> 1, codec |-> codec, mhType |-> mhType, mhLen |-> mhLen,
     digest |-> content]

\* cid.Undef
Undef ==
    [version |-> 0, codec |-> 0, mhType |-> 0, mhLen |-> 0,
     digest |-> Content("undef", NoPath, 0, <<>>)]

\* Bytes of an unsigned varint.
VarintLen(n) == IF n < 128 THEN 1 ELSE IF n < 16384 THEN 2 ELSE 3

\* Bytes of a binary CID: version, codec, multihash (code, length, digest).
CidLen(c) ==
    VarintLen(c.version) + VarintLen(c.codec) + VarintLen(c.mhType)
        + VarintLen(c.mhLen) + c.mhLen

\* Cid.String(): the multibase (base32, prefix "b") text of the binary CID.
CidString(c) == <<"b", c.version, c.codec, c.mhType, c.mhLen, c.digest>>

\* The placeholder root of createCar with a SHA2-512 digest.
ProxyRoot_Sha512 == NewCidV1(DagPb, 19, 64, Content("empty", NoPath, 0, <<>>))

\* createCar: proxyRoot, the CIDv1 (dag-pb) of the SHA2-256 digest of no bytes.
ProxyRoot == NewCidV1(DagPb, SHA2_256, Sha256Len, Content("empty", NoPath, 0, <<>>))

\* The CID of the k-th node BuildUnixFSRecursive commits for p. The last one is
\* the root of p: a raw leaf for a one-chunk file, a dag-pb node otherwise.
NodeCid(p, k) ==
    NewCidV1(IF k = p.nodes /\ (p.isDir \/ p.nodes > 1) THEN DagPb ELSE Raw,
             SHA2_256, Sha256Len, Content("node", p, k, <<>>))

RootCid(p) == NodeCid(p, p.nodes)

\* builder.BuildUnixFSDirectoryEntry(name, size, l)
DirEntry(p) == [name |-> p.base, size |-> p.nodes, link |-> RootCid(p)]

\* The CID of the directory node over the entries, in the order given.
DirCid(entries) == NewCidV1(DagPb, SHA2_256, Sha256Len, Content("dir", NoPath, 0, entries))

----------------------------------------------------------------------------
(* The archive file *)

RECURSIVE SumCidLen(_)
SumCidLen(roots) ==
    IF roots = <<>> THEN 0 ELSE CidLen(Head(roots)) + SumCidLen(Tail(roots))

\* Bytes of the header declaring the roots.
HeaderLen(roots) == 1 + SumCidLen(roots)

BlockLen(b) == 1 + CidLen(b.cid) + b.len

RECURSIVE SumBlockLen(_)
SumBlockLen(bs) ==
    IF bs = <<>> THEN 0 ELSE BlockLen(Head(bs)) + SumBlockLen(Tail(bs))

IndexLen(bs) == Len(bs)

FileLen(hdr, bs, ix) ==
    HeaderLen(hdr) + SumBlockLen(bs) + (IF ix THEN IndexLen(bs) ELSE 0)

HasBlock(bs, c) == \E i \in 1..Len(bs) : bs[i].cid = c

\* blockstore.ReadWrite.Put: refused unless the store is open, may fail on I/O,
\* and skips a CID the store already holds.
PutOk(state, ioOk) == state = "Open" /\ ioOk

PutBlocks(bs, state, ioOk, blk) ==
    IF PutOk(state, ioOk) /\ ~HasBlock(bs, blk.cid) THEN Append(bs, blk) ELSE bs

\* One block-store operation: its name, whether it succeeded, and the state the
\* store was in when it was issued.
Call(op, ok, state) == [op |-> op, ok |-> ok, state |-> state]

NoSnap == [len |-> 0, blocks |-> <<>>, set |-> FALSE]
NoReq == [AssetCID |-> <<>>, AssetName |-> "", AssetSize |-> 0, AssetType |-> "", sent |-> FALSE]
NoRsp == [AlreadyExists |-> FALSE, UploadURL |-> "", Token |-> "", err |-> Nil, got |-> FALSE]
NoUp == [url |-> "", token |-> "", auth |-> <<>>, started |-> FALSE]

URLs == {"u1", "u2"}
Tokens == {"t1", "t2"}

----------------------------------------------------------------------------
(* Initial states *)

BuildIdle ==
    /\ noWrap = FALSE /\ paths = <<>> /\ idx = 0 /\ left = 0 /\ topLevel = <<>>
    /\ wfCid = Undef /\ wfErr = Nil

CarIdle == carRoot = <<>> /\ carErr = Nil /\ finalSnap = NoSnap

UploadIdle == req = NoReq /\ rsp = NoRsp /\ up = NoUp /\ ufErr = Nil /\ execErr = Nil

ReadIdle ==
    /\ totalSize = 0 /\ off = 0 /\ dongSize = 0
    /\ reads = <<>> /\ rets = <<>> /\ reports = <<>>

\* main calls execUpload(apiKey, locatorURL, args[0]); a file of an earlier run
\* may sit at the temporary path.
Init ==
    /\ pc = "start"
    /\ filePath \in Path
    /\ tempExists \in BOOLEAN
    /\ bsState = "None" /\ header = <<>> /\ blocks = <<>> /\ indexed = FALSE
    /\ calls = <<>>
    /\ tempCreated = FALSE
    /\ BuildIdle /\ CarIdle /\ UploadIdle /\ ReadIdle

----------------------------------------------------------------------------
(* execUpload, up to createCar *)

\* execUpload: newSchedulerAPI and its error return.
NewSchedulerAPI ==
    /\ pc = "start"
    /\ \E ok \in BOOLEAN :
        /\ pc' = IF ok THEN "stat" ELSE "ret"
        /\ execErr' = IF ok THEN Nil ELSE "NewSchedulerAPI"
    /\ UNCHANGED <<filePath, fileVars, buildVars, storeVars, carVars, rpcVars, up,
                   readVars, ufErr>>

\* execUpload: os.Stat(filePath) and its error return.
StatInput ==
    /\ pc = "stat"
    /\ \E ok \in BOOLEAN :
        /\ pc' = IF ok THEN "rmstale" ELSE "ret"
        /\ execErr' = IF ok THEN Nil ELSE "Stat"
    /\ UNCHANGED <<filePath, fileVars, buildVars, storeVars, carVars, rpcVars, up,
                   readVars, ufErr>>

\* execUpload: a file already at the temporary path is removed; the result of
\* os.Remove is not looked at.
RemoveStale ==
    /\ pc = "rmstale"
    /\ \E removed \in BOOLEAN :
        tempExists' = (tempExists /\ ~removed)
    /\ pc' = "cc_open"
    /\ UNCHANGED <<filePath, tempCreated, buildVars, storeVars, carVars, rpcVars, up,
                   readVars, ufErr, execErr>>

----------------------------------------------------------------------------
(* createCar *)

\* createCar: the placeholder root, blockstore.OpenReadWrite and its error
\* return, then the call writeFiles(ctx, true, cdest, input). A file that could
\* not be removed is not opened for writing either.
OpenReadWrite ==
    /\ pc = "cc_open"
    /\ \E ok \in BOOLEAN, created \in BOOLEAN :
        LET good == ok /\ ~tempExists
            made == ~tempExists /\ (good \/ created) IN
        /\ calls' = Append(calls, Call("Open", good, bsState))
        /\ tempExists' = (tempExists \/ made)
        /\ tempCreated' = made
        /\ header' = IF good THEN <<ProxyRoot>> ELSE header
        /\ bsState' = IF good THEN "Open" ELSE bsState
        /\ pc' = IF good THEN "wf_loop" ELSE "cc_ret"
        /\ carErr' = IF good THEN Nil ELSE "OpenReadWrite"
        /\ noWrap' = (IF good THEN TRUE ELSE noWrap)
        /\ paths' = IF good THEN <<filePath>> ELSE paths
        /\ idx' = IF good THEN 1 ELSE idx
    /\ UNCHANGED <<filePath, left, topLevel, wfCid, wfErr, blocks, indexed, finalSnap,
                   carRoot, rpcVars, up, readVars, ufErr, execErr>>

----------------------------------------------------------------------------
(* writeFiles *)

\* The commit callback of StorageWriteOpener: the error it returns, given
\* whether NewBlockWithCid accepted the block and whether bs.Put stored it.
\* The result of bs.Put is dropped.
Commit(blkOk, putOk) == IF ~blkOk THEN "ErrWrongHash" ELSE Nil

\* writeFiles, top of the loop over paths: the next path starts building, or,
\* past the last path, BuildUnixFSDirectory(topLevel) and the return.
WfLoop ==
    /\ pc = "wf_loop"
    /\ IF idx <= Len(paths)
       THEN /\ left' = paths[idx].nodes
            /\ pc' = "wf_build"
            /\ UNCHANGED <<wfCid, wfErr, blocks, calls>>
       ELSE \E dirOk \in BOOLEAN, blkOk \in BOOLEAN, ioOk \in BOOLEAN, len \in 1..MaxData :
            LET root == DirCid(topLevel)
                blk == [cid |-> root, len |-> len]
                stored == dirOk /\ blkOk
                err == IF dirOk THEN Commit(blkOk, PutOk(bsState, ioOk)) ELSE "BuildUnixFSDirectory" IN
            /\ blocks' = IF stored THEN PutBlocks(blocks, bsState, ioOk, blk) ELSE blocks
            /\ calls' = IF stored THEN Append(calls, Call("Put", PutOk(bsState, ioOk), bsState)) ELSE calls
            /\ wfCid' = IF err = Nil THEN root ELSE Undef
            /\ wfErr' = Nil
            /\ pc' = "wf_ret"
            /\ left' = left
    /\ UNCHANGED <<filePath, fileVars, noWrap, paths, idx, topLevel, bsState, header,
                   indexed, finalSnap, carVars, rpcVars, up, readVars, ufErr, execErr>>

\* BuildUnixFSRecursive stores one node through the link system: the commit
\* callback makes the block and puts it; an error of the callback ends the build
\* and writeFiles returns it.
WfCommit ==
    /\ pc = "wf_build"
    /\ left > 0
    /\ \E blkOk \in BOOLEAN, ioOk \in BOOLEAN, len \in 1..MaxData :
        LET p == paths[idx]
            blk == [cid |-> NodeCid(p, p.nodes - left + 1), len |-> len]
            err == Commit(blkOk, PutOk(bsState, ioOk)) IN
        /\ blocks' = IF blkOk THEN PutBlocks(blocks, bsState, ioOk, blk) ELSE blocks
        /\ calls' = IF blkOk THEN Append(calls, Call("Put", PutOk(bsState, ioOk), bsState)) ELSE calls
        /\ left' = IF err = Nil THEN left - 1 ELSE left
        /\ pc' = IF err = Nil THEN "wf_build" ELSE "wf_ret"
        /\ wfErr' = err
        /\ wfCid' = Undef
    /\ UNCHANGED <<filePath, fileVars, noWrap, paths, idx, topLevel, bsState, header,
                   indexed, finalSnap, carVars, rpcVars, up, readVars, ufErr, execErr>>

\* BuildUnixFSRecursive fails reading the source: writeFiles returns the error.
WfBuildFail ==
    /\ pc = "wf_build"
    /\ left > 0
    /\ pc' = "wf_ret"
    /\ wfCid' = Undef
    /\ wfErr' = "read"
    /\ UNCHANGED <<filePath, fileVars, noWrap, paths, idx, left, topLevel, storeVars,
                   carVars, rpcVars, up, readVars, ufErr, execErr>>

\* BuildUnixFSRecursive returned the link of paths[idx]: with noWrap its CID is
\* returned at once, else its directory entry is appended to topLevel.
WfBuildDone ==
    /\ pc = "wf_build"
    /\ left = 0
    /\ IF noWrap
       THEN /\ wfCid' = RootCid(paths[idx])
            /\ wfErr' = Nil
            /\ pc' = "wf_ret"
            /\ UNCHANGED <<idx, topLevel>>
       ELSE \E entryOk \in BOOLEAN :
            /\ wfCid' = Undef
            /\ wfErr' = IF entryOk THEN Nil ELSE "BuildUnixFSDirectoryEntry"
            /\ pc' = IF entryOk THEN "wf_loop" ELSE "wf_ret"
            /\ topLevel' = IF entryOk THEN Append(topLevel, DirEntry(paths[idx])) ELSE topLevel
            /\ idx' = IF entryOk THEN idx + 1 ELSE idx
    /\ UNCHANGED <<filePath, fileVars, noWrap, paths, left, storeVars, carVars, rpcVars,
                   up, readVars, ufErr, execErr>>
----------------------------------------------------------------------------
(* createCar, after writeFiles *)

\* createCar: where it goes with the error writeFiles returned.
AfterWriteFiles(err) == IF err # Nil THEN "cc_ret" ELSE "cc_finalize"

\* A createCar that does not look at the error of Finalize.
AfterFinalize_Ignore(err) == "cc_replace"

\* createCar: where it goes with the error Finalize returned.
AfterFinalize(err) == IF err # Nil THEN "cc_ret" ELSE "cc_replace"

\* createCar: root, err := writeFiles(...); if err != nil { return "", err }
CreateCarAfterWrite ==
    /\ pc = "wf_ret"
    /\ pc' = AfterWriteFiles(wfErr)
    /\ carErr' = wfErr
    /\ UNCHANGED <<filePath, fileVars, buildVars, storeVars, carRoot, rpcVars, up,
                   readVars, ufErr, execErr>>

\* createCar: cdest.Finalize() and its error return. Finalize writes the index
\* and fixes the length of the file.
Finalize ==
    /\ pc = "cc_finalize"
    /\ \E ok \in BOOLEAN :
        LET err == IF ok THEN Nil ELSE "Finalize" IN
        /\ calls' = Append(calls, Call("Finalize", ok, bsState))
        /\ bsState' = IF ok THEN "Finalized" ELSE bsState
        /\ indexed' = (indexed \/ ok)
        /\ finalSnap' = IF ok
                        THEN [len |-> FileLen(header, blocks, TRUE), blocks |-> blocks,
                              set |-> TRUE]
                        ELSE finalSnap
        /\ carErr' = err
        /\ pc' = AfterFinalize(err)
    /\ UNCHANGED <<filePath, fileVars, buildVars, header, blocks, carRoot, rpcVars, up,
                   readVars, ufErr, execErr>>

\* car.ReplaceRootsInFile: the header is overwritten in place, and only when the
\* new header is as long as the one in the file.
ReplaceRootsOk(hdr, roots, ioOk) == ioOk /\ HeaderLen(roots) = HeaderLen(hdr)

\* createCar: return root.String(), car.ReplaceRootsInFile(output, []cid.Cid{root})
ReplaceRootsInFile ==
    /\ pc = "cc_replace"
    /\ \E ioOk \in BOOLEAN :
        LET ok == ReplaceRootsOk(header, <<wfCid>>, ioOk) IN
        /\ calls' = Append(calls, Call("ReplaceRoots", ok, bsState))
        /\ header' = IF ok THEN <<wfCid>> ELSE header
        /\ bsState' = IF ok THEN "RootPatched" ELSE bsState
        /\ carRoot' = CidString(wfCid)
        /\ carErr' = IF ok THEN Nil ELSE "ReplaceRootsInFile"
        /\ pc' = "cc_ret"
    /\ UNCHANGED <<filePath, fileVars, buildVars, blocks, indexed, finalSnap, rpcVars, up,
                   readVars, ufErr, execErr>>

----------------------------------------------------------------------------
(* execUpload, after createCar; uploadFile *)

\* An execUpload that does not look at the error of createCar.
AfterCreateCar_Ignore(err) == "uf_open"

\* execUpload: where it goes with the error createCar returned.
AfterCreateCar(err) == IF err # Nil THEN "ret" ELSE "uf_open"

\* execUpload: root, err := createCar(filePath, tempFile); if err != nil { return err }
ExecAfterCreateCar ==
    /\ pc = "cc_ret"
    /\ pc' = AfterCreateCar(carErr)
    /\ execErr' = carErr
    /\ UNCHANGED <<filePath, fileVars, buildVars, storeVars, carVars, rpcVars, up,
                   readVars, ufErr>>

\* uploadFile: os.Open(carFilePath), f.Stat() and their error returns.
UfOpenStat ==
    /\ pc = "uf_open"
    /\ \E ok \in BOOLEAN :
        LET good == ok /\ tempExists IN
        /\ pc' = IF good THEN "uf_create" ELSE "uf_ret"
        /\ ufErr' = IF good THEN Nil ELSE "Open"
    /\ UNCHANGED <<filePath, fileVars, buildVars, storeVars, carVars, rpcVars, up,
                   readVars, execErr>>

\* An uploadFile that transfers although the asset already exists.
AfterCreateUserAsset_NoExistsCheck(r) ==
    IF r.err # Nil THEN "CreateUserAsset error" ELSE Nil

\* uploadFile: the error it returns on the answer of CreateUserAsset; Nil when
\* it goes on to uploadFileWithForm.
AfterCreateUserAsset(r) ==
    IF r.err # Nil THEN "CreateUserAsset error"
    ELSE IF r.AlreadyExists THEN "asset already exist"
    ELSE Nil

\* "Bearer " + token
Bearer(token) == <<"Bearer ", token>>

\* uploadFile: the AssetProperty, schedulerAPI.CreateUserAsset, the two error
\* returns, and the call uploadFileWithForm(carFilePath, rsp.UploadURL, rsp.Token).
CreateUserAsset ==
    /\ pc = "uf_create"
    /\ \E failed \in BOOLEAN, exists \in BOOLEAN, url \in URLs, token \in Tokens :
        LET r == IF failed
                 THEN [NoRsp EXCEPT !.err = "rpc", !.got = TRUE]
                 ELSE [AlreadyExists |-> exists,
                       UploadURL |-> IF exists THEN "" ELSE url,
                       Token |-> IF exists THEN "" ELSE token,
                       err |-> Nil, got |-> TRUE]
            err == AfterCreateUserAsset(r) IN
        /\ req' = [AssetCID |-> carRoot, AssetName |-> filePath.base,
                   AssetSize |-> FileLen(header, blocks, indexed),
                   AssetType |-> IF filePath.isDir THEN "folder" ELSE "file",
                   sent |-> TRUE]
        /\ rsp' = r
        /\ ufErr' = err
        /\ pc' = IF err = Nil THEN "ufw_prep" ELSE "uf_ret"
        /\ up' = IF err = Nil
                 THEN [url |-> r.UploadURL, token |-> r.Token, auth |-> <<>>,
                       started |-> TRUE]
                 ELSE up
    /\ UNCHANGED <<filePath, fileVars, buildVars, storeVars, carVars, readVars, execErr>>
----------------------------------------------------------------------------
(* uploadFileWithForm and the ProgressReader *)

\* Bytes the multipart writer adds around the file: the two boundary lines and
\* the part's header.
FormFraming == 237

\* body.Len() of the form holding a file of n bytes.
FormLen(n) == n + FormFraming

\* Length of the buffer the HTTP client copies the request body with.
CopyBufLen == 32768

Min(a, b) == IF a < b THEN a ELSE b

\* bytes.Buffer.Read into a buffer of plen > 0 bytes, with total bytes in the
\* buffer and o of them read already.
BufferRead(total, o, plen) ==
    IF o >= total
    THEN [n |-> 0, err |-> "EOF"]
    ELSE [n |-> Min(plen, total - o), err |-> Nil]

\* A ProgressReader that reports the length of the buffer it was given.
ProgressReaderRead_ReportBuf(inner, plen) ==
    [n |-> inner.n, err |-> inner.err, report |-> plen]

\* ProgressReader.Read: what it returns and what it calls Reporter with, given
\* what the wrapped reader returned for a buffer of plen bytes.
ProgressReaderRead(inner, plen) ==
    [n |-> inner.n, err |-> inner.err, report |-> inner.n]

\* The observer of uploadFileWithForm: dongSize after a call with r.
Reporter(d, r) == IF r > 0 THEN d + r ELSE d

\* uploadFileWithForm up to the request: the file is opened and copied into the
\* form, the observer starts at 0, the request gets its Authorization header.
UfwPrepare ==
    /\ pc = "ufw_prep"
    /\ \E ok \in BOOLEAN :
        LET good == ok /\ tempExists IN
        /\ pc' = IF good THEN "ufw_send" ELSE "uf_ret"
        /\ ufErr' = IF good THEN Nil ELSE "uploadFileWithForm error"
        /\ totalSize' = IF good THEN FormLen(FileLen(header, blocks, indexed)) ELSE totalSize
        /\ up' = IF good THEN [up EXCEPT !.auth = Bearer(up.token)] ELSE up
    /\ off' = 0 /\ dongSize' = 0
    /\ reads' = <<>> /\ rets' = <<>> /\ reports' = <<>>
    /\ UNCHANGED <<filePath, fileVars, buildVars, storeVars, carVars, rpcVars, execErr>>

EofSeen == reads # <<>> /\ reads[Len(reads)].err = "EOF"

\* The client reads the request body once more, into a buffer of one of the
\* lengths in lens: ProgressReader.Read forwards to the buffer and calls the
\* observer. It does not read again after io.EOF.
PrRead(lens) ==
    /\ pc = "ufw_send"
    /\ ~EofSeen
    /\ \E plen \in lens :
        LET inner == BufferRead(totalSize, off, plen)
            r == ProgressReaderRead(inner, plen) IN
        /\ off' = off + inner.n
        /\ reads' = Append(reads, inner)
        /\ rets' = Append(rets, [n |-> r.n, err |-> r.err])
        /\ reports' = Append(reports, r.report)
        /\ dongSize' = Reporter(dongSize, r.report)
    /\ UNCHANGED <<pc, filePath, fileVars, buildVars, storeVars, carVars, rpcVars, up,
                   totalSize, ufErr, execErr>>

\* client.Do fails: "do error".
DoFail ==
    /\ pc = "ufw_send"
    /\ pc' = "uf_ret"
    /\ ufErr' = "uploadFileWithForm error"
    /\ UNCHANGED <<filePath, fileVars, buildVars, storeVars, carVars, rpcVars, up,
                   readVars, execErr>>

\* client.Do returns a response; its body is read, which may fail.
DoDone ==
    /\ pc = "ufw_send"
    /\ \E ok \in BOOLEAN :
        ufErr' = IF ok THEN Nil ELSE "uploadFileWithForm error"
    /\ pc' = "uf_ret"
    /\ UNCHANGED <<filePath, fileVars, buildVars, storeVars, carVars, rpcVars, up,
                   readVars, execErr>>

\* execUpload: the error return after uploadFile, then os.Remove(tempFile).
ExecAfterUpload ==
    /\ pc = "uf_ret"
    /\ IF ufErr # Nil
       THEN /\ execErr' = ufErr
            /\ UNCHANGED tempExists
       ELSE \E removed \in BOOLEAN :
            /\ tempExists' = (tempExists /\ ~removed)
            /\ execErr' = IF removed THEN Nil ELSE "Remove"
    /\ pc' = "ret"
    /\ UNCHANGED <<filePath, tempCreated, buildVars, storeVars, carVars, rpcVars, up,
                   readVars, ufErr>>

----------------------------------------------------------------------------
(* Specifications *)

Next ==
    \/ NewSchedulerAPI
    \/ StatInput
    \/ RemoveStale
    \/ OpenReadWrite
    \/ WfLoop
    \/ WfCommit
    \/ WfBuildFail
    \/ WfBuildDone
    \/ CreateCarAfterWrite
    \/ Finalize
    \/ ReplaceRootsInFile
    \/ ExecAfterCreateCar
    \/ UfOpenStat
    \/ CreateUserAsset
    \/ UfwPrepare
    \/ PrRead({CopyBufLen})
    \/ DoFail
    \/ DoDone
    \/ ExecAfterUpload

Spec == Init /\ [][Next]_vars

RECURSIVE SeqsUpTo(_, _)
SeqsUpTo(S, n) ==
    IF n = 0 THEN {<<>>}
    ELSE LET shorter == SeqsUpTo(S, n - 1) IN
         shorter \cup {Append(q, x) : q \in shorter, x \in S}

\* writeFiles called with any noWrap and any paths on a store just opened with
\* the placeholder root.
InitWF ==
    /\ pc = "wf_loop"
    /\ filePath = NoPath
    /\ tempExists = TRUE /\ tempCreated = TRUE
    /\ bsState = "Open" /\ header = <<ProxyRoot>> /\ blocks = <<>> /\ indexed = FALSE
    /\ calls = <<Call("Open", TRUE, "None")>>
    /\ noWrap \in BOOLEAN
    /\ paths \in SeqsUpTo(Path, MaxPaths)
    /\ idx = 1 /\ left = 0 /\ topLevel = <<>>
    /\ wfCid = Undef /\ wfErr = Nil
    /\ CarIdle /\ UploadIdle /\ ReadIdle

NextWF == WfLoop \/ WfCommit \/ WfBuildFail \/ WfBuildDone

SpecWF == InitWF /\ [][NextWF]_vars

\* uploadFileWithForm at client.Do, with a form body of any length, read by a
\* client that may pass buffers of any length from 1 to MaxRead.
InitPR ==
    /\ pc = "ufw_send"
    /\ filePath = NoPath
    /\ tempExists = TRUE /\ tempCreated = TRUE
    /\ bsState = "RootPatched" /\ header = <<ProxyRoot>> /\ blocks = <<>> /\ indexed = TRUE
    /\ calls = <<>>
    /\ BuildIdle /\ CarIdle
    /\ req = NoReq /\ rsp = NoRsp /\ ufErr = Nil /\ execErr = Nil
    /\ \E url \in URLs, token \in Tokens :
        up = [url |-> url, token |-> token, auth |-> Bearer(token), started |-> TRUE]
    /\ totalSize \in 0..MaxBody
    /\ off = 0 /\ dongSize = 0
    /\ reads = <<>> /\ rets = <<>> /\ reports = <<>>

NextPR == PrRead(1..MaxRead) \/ DoFail \/ DoDone

SpecPR == InitPR /\ [][NextPR]_vars

----------------------------------------------------------------------------
(* Properties *)

Issued(op) == \E i \in 1..Len(calls) : calls[i].op = op
Succeeded(op) == \E i \in 1..Len(calls) : calls[i].op = op /\ calls[i].ok
FailedPut == \E i \in 1..Len(calls) : calls[i].op = "Put" /\ ~calls[i].ok

InWriteFiles == pc \in {"wf_loop", "wf_build"}
InUpload == pc \in {"uf_open", "uf_create", "ufw_prep", "ufw_send", "uf_ret"}

\* C1: in every run of createCar the store goes Open -> Finalized -> RootPatched:
\* every put is issued while the store is open, Finalize is issued only after
\* writeFiles has returned, ReplaceRootsInFile only right after a Finalize that
\* succeeded, and no put follows Finalize.
C1_OpenFinalizedPatched ==
    /\ InWriteFiles => bsState = "Open" /\ ~Issued("Finalize") /\ ~Issued("ReplaceRoots")
    /\ \A i \in 1..Len(calls) :
        /\ calls[i].op = "Open" => i = 1
        /\ calls[i].op = "Put" =>
            /\ calls[i].state = "Open"
            /\ \A j \in 1..(i - 1) : calls[j].op \in {"Open", "Put"}
        /\ calls[i].op = "Finalize" => calls[i].state = "Open" /\ calls[1].ok
        /\ calls[i].op = "ReplaceRoots" =>
            /\ calls[i].state = "Finalized"
            /\ i > 1 /\ calls[i - 1].op = "Finalize" /\ calls[i - 1].ok
            /\ i = Len(calls)
    /\ bsState = "Finalized" => Succeeded("Finalize")
    /\ bsState = "RootPatched" => Succeeded("Finalize") /\ Succeeded("ReplaceRoots")

C1_Witness ==
    /\ bsState = "RootPatched"
    /\ Len(calls) >= 4
    /\ calls[2].op = "Put"

\* C2: a put that fails while a node is committed aborts the build: writeFiles
\* has an error to return and neither Finalize nor ReplaceRootsInFile is issued.
C2_PutFailureAborts ==
    FailedPut => wfErr # Nil /\ ~Issued("Finalize") /\ ~Issued("ReplaceRoots")

\* C3: writeFiles never returns the undefined CID together with a nil error.
C3_NoUndefWithNilError ==
    pc = "wf_ret" /\ wfCid = Undef => wfErr # Nil

PathEntries == [i \in 1..Len(paths) |-> DirEntry(paths[i])]

\* C4: a call of writeFiles with two or more paths that returns a CID has built
\* every path and returns the CID of the directory node over one entry per path,
\* in the order given, whatever noWrap is; the bare CID of a path is returned
\* only for a single path with noWrap set.
C4_ManyPathsMakeDirectory ==
    pc = "wf_ret" /\ wfErr = Nil /\ wfCid # Undef =>
        /\ Len(paths) >= 2 => idx > Len(paths) /\ wfCid = DirCid(PathEntries)
        /\ (\E i \in 1..Len(paths) : wfCid = RootCid(paths[i])) =>
            Len(paths) = 1 /\ noWrap

\* C5: when the service answers that the asset already exists, uploadFile
\* returns no error.
C5_AlreadyExistsIsSuccess ==
    pc \in {"uf_ret", "ret"} /\ rsp.got /\ rsp.err = Nil /\ rsp.AlreadyExists =>
        ufErr = Nil

\* C6: uploadFileWithForm is started only after CreateUserAsset answered without
\* error that the asset does not exist yet, and it uses the upload URL and the
\* token of that answer.
C6_TransferOnlyAfterDestination ==
    /\ pc \in {"ufw_prep", "ufw_send"} \/ reads # <<>> => up.started
    /\ up.started =>
        /\ req.sent /\ rsp.got
        /\ rsp.err = Nil /\ ~rsp.AlreadyExists
        /\ up.url = rsp.UploadURL /\ up.token = rsp.Token
        /\ up.auth # <<>> => up.auth = Bearer(rsp.Token)
    /\ pc = "ufw_send" => up.auth = Bearer(rsp.Token)

C6_Witness == pc = "ufw_send" /\ up.started /\ reads # <<>> /\ rsp.UploadURL = "u2"

RECURSIVE Sum(_)
Sum(q) == IF q = <<>> THEN 0 ELSE Head(q) + Sum(Tail(q))

Completed == \E i \in 1..Len(reports) : reports[i] = 0

C7_Observed ==
    /\ Len(reports) = Len(reads) /\ Len(rets) = Len(reads)
    /\ \A i \in 1..Len(reads) :
        /\ reports[i] = reads[i].n
        /\ rets[i] = reads[i]
        /\ reads[i].n = 0 <=> i = Len(reads) /\ EofSeen
    /\ dongSize = Sum(reports)
    /\ dongSize <= totalSize
    /\ Completed => dongSize = totalSize
    /\ EofSeen => Completed /\ reports[Len(reports)] = 0

\* C7: each Read of the ProgressReader returns what the wrapped reader returned
\* and calls the observer once with the number of bytes read, in order, the last
\* call being 0 at the end of the body; the observer's count never decreases,
\* never exceeds the length of the body and equals it at completion.
C7_ProgressReporting == []C7_Observed /\ [][dongSize' >= dongSize]_vars

C7_Witness ==
    /\ EofSeen /\ totalSize = MaxBody
    /\ Len(reports) >= 3
    /\ dongSize = totalSize

\* C8: the placeholder root has the count and the serialized size of the true
\* root, so after ReplaceRootsInFile the file is as long as when Finalize
\* returned, its block records are the same and each is found by its CID, and the
\* header holds the true root.
C8_HeaderPatchable ==
    /\ bsState \in {"Open", "Finalized"} => header = <<ProxyRoot>>
    /\ pc \in {"cc_finalize", "cc_replace"} =>
        /\ Len(header) = 1
        /\ CidLen(wfCid) = CidLen(header[1])
        /\ HeaderLen(<<wfCid>>) = HeaderLen(header)
    /\ Issued("ReplaceRoots") =>
        /\ finalSnap.set
        /\ FileLen(header, blocks, indexed) = finalSnap.len
        /\ blocks = finalSnap.blocks
        /\ \A i \in 1..Len(finalSnap.blocks) : HasBlock(blocks, finalSnap.blocks[i].cid)
    /\ bsState = "RootPatched" => header = <<wfCid>> /\ wfCid = RootCid(filePath)

C8_Witness ==
    /\ bsState = "RootPatched"
    /\ Len(blocks) >= 2
    /\ header # <<ProxyRoot>>
    /\ FileLen(header, blocks, indexed) = finalSnap.len

\* C9: CreateUserAsset and the upload are started only after createCar returned
\* without error, Finalize and ReplaceRootsInFile having succeeded; a header that
\* holds anything but the placeholder was patched after Finalize succeeded; and
\* the CID sent to the service is the root in the header.
C9_OnlyFinishedArchiveUploaded ==
    /\ InUpload \/ req.sent \/ up.started =>
        /\ carErr = Nil
        /\ bsState = "RootPatched"
        /\ Succeeded("Finalize") /\ Succeeded("ReplaceRoots")
        /\ carRoot = CidString(header[1])
    /\ req.sent => req.AssetCID = CidString(header[1])
    /\ header # <<>> /\ header # <<ProxyRoot>> => Succeeded("Finalize")
    /\ pc = "ret" /\ ~Succeeded("ReplaceRoots") => ~req.sent /\ ~up.started

C9_Witness == req.sent /\ up.started /\ bsState = "RootPatched" /\ pc = "ret"

\* C10: when execUpload returns after the archive file was opened at the
\* temporary path, the file is gone.
C10_TempFileRemoved ==
    pc = "ret" /\ Succeeded("Open") => ~tempExists

====
